---- MODULE Spec2Model ----
(***************************************************************************)
(* Friend-request workflow of the Follower_management_API Django service   *)
(* (src/app/views.py, src/app/serializers.py).                             *)
(*                                                                         *)
(* The database is three tables: the users, the FriendRequest rows (in     *)
(* primary-key order; a row's id is its position) and the rows of the      *)
(* friends many-to-many relation (ordered pairs of user ids).              *)
(*                                                                         *)
(* Spec     : every HTTP handler runs to completion as one step.           *)
(* SpecConc : the Accept and Reject handlers run as their separate         *)
(*            database statements (SELECT, UPDATE, INSERT), interleaved    *)
(*            between worker processes; the code opens no transaction.     *)
(*                                                                         *)
(* The throttle on FriendRequestCreateView (3/min) is applied by the       *)
(* framework before the handler is entered; a throttled call never reaches *)
(* perform_create and is not a Send in this model.                         *)
(***************************************************************************)
EXTENDS Integers, Sequences, FiniteSets, TLC

\* ---------------------------------------------------------------- bounds
MaxUsers == 2
MaxRequests == 2
NumProcs == 2

VARIABLES users, requests, friends, last, inflight

vars == <<users, requests, friends, last, inflight>>

\* ids a caller can put in a request body: the ids 1..MaxUsers (registered or
\* not yet) and 0, an id no user has (an absent field reads the same: no row
\* matches it)
InputIds == 0 .. MaxUsers

Procs == 1 .. NumProcs

\* the worker slot that is not handling a request
Idle == [pc |-> "idle", user |-> 0, arg |-> 0, fr |-> 0]

\* the HTTP response of the latest completed handler: the operation, the
\* authenticated user, the id given in the body, the HTTP status code and the
\* id of the FriendRequest in the response body (0 when there is none)
Response(op, user, arg, code, rid) ==
    [op |-> op, user |-> user, arg |-> arg, code |-> code, rid |-> rid]

\* ------------------------------------------------------------- the store

\* status of a FriendRequest row created without one: the model's default
DefaultStatus == "pending"

\* request.user.friends.add(other) on the symmetric self-relation: the row
\* and its mirror row, inserted by one statement
FriendsAdd(fs, u, other) == fs \cup {<<u, other>>, <<other, u>>}

\* FriendRequest.objects.filter(from_user_id=user_id, to_user=request.user,
\*                              status='pending')
\* (faulty variants, used to see that the properties below notice the filter:
\* one drops the status condition, one the to_user condition)
PendingFilterAnyStatus(reqs, user_id, u) ==
    {i \in 1 .. Len(reqs) : reqs[i].from_user = user_id /\ reqs[i].to_user = u}

PendingFilterAnyReceiver(reqs, user_id, u) ==
    {i \in 1 .. Len(reqs) :
        reqs[i].from_user = user_id /\ reqs[i].status = "pending"}

PendingFilter(reqs, user_id, u) ==
    {i \in 1 .. Len(reqs) :
        /\ reqs[i].from_user = user_id
        /\ reqs[i].to_user = u
        /\ reqs[i].status = "pending"}

\* .first(): the row of the queryset with the lowest primary key, or None (0)
First(ids) == IF ids = {} THEN 0 ELSE CHOOSE i \in ids : \A j \in ids : i <= j

\* serializer.save(from_user=self.request.user): from_user is read-only in the
\* serializer, so a from_user in the body is dropped and the acting user is used
\* (faulty variant: a writable from_user field)
SaveFromUserSupplied(acting, supplied) == supplied

SaveFromUser(acting, supplied) == acting

\* FriendListView.get_queryset: User.objects.filter(friends=request.user)
FriendList(u) == {x \in users : <<x, u>> \in friends}

\* PendingFriendRequestListView.get_queryset
PendingList(u) ==
    {i \in 1 .. Len(requests) :
        requests[i].to_user = u /\ requests[i].status = "pending"}

\* ------------------------------------------------------------------ Init
Init ==
    /\ users = {}
    /\ requests = <<>>
    /\ friends = {}
    /\ last = Response("none", 0, 0, 0, 0)
    /\ inflight = [p \in Procs |-> Idle]

\* ------------------------------------------- handlers, one step per call

\* RegisterView.post: a new user with the next id
Register ==
    /\ Cardinality(users) < MaxUsers
    /\ LET id == Cardinality(users) + 1 IN
        /\ users' = users \cup {id}
        /\ last' = Response("Register", id, 0, 201, 0)
    /\ UNCHANGED <<requests, friends, inflight>>

\* FriendRequestCreateView.post by user u with body {to_user: t, from_user: f}
Send(u, t, f) ==
    /\ u \in users
    /\ IF t \in users
       THEN /\ Len(requests) < MaxRequests
            /\ requests' = Append(requests,
                   [from_user |-> SaveFromUser(u, f), to_user |-> t,
                    status |-> DefaultStatus])
            /\ last' = Response("Send", u, t, 201, Len(requests) + 1)
       ELSE /\ requests' = requests
            /\ last' = Response("Send", u, t, 400, 0)
    /\ UNCHANGED <<users, friends, inflight>>

\* FriendRequestAcceptView.post by user u with body {user_id: v}
\* (faulty variant first: the friends.add line left out)
AcceptNoFriendAdd(u, v) ==
    /\ u \in users
    /\ LET fr == First(PendingFilter(requests, v, u)) IN
        IF fr # 0
        THEN /\ requests' = [requests EXCEPT ![fr].status = "accepted"]
             /\ friends' = friends
             /\ last' = Response("Accept", u, v, 200, fr)
        ELSE /\ UNCHANGED <<requests, friends>>
             /\ last' = Response("Accept", u, v, 400, 0)
    /\ UNCHANGED <<users, inflight>>

Accept(u, v) ==
    /\ u \in users
    /\ LET fr == First(PendingFilter(requests, v, u)) IN
        IF fr # 0
        THEN /\ requests' = [requests EXCEPT ![fr].status = "accepted"]
             /\ friends' = FriendsAdd(friends, u, requests[fr].from_user)
             /\ last' = Response("Accept", u, v, 200, fr)
        ELSE /\ UNCHANGED <<requests, friends>>
             /\ last' = Response("Accept", u, v, 400, 0)
    /\ UNCHANGED <<users, inflight>>

\* FriendRequestRejectView.post by user u with body {user_id: v}
\* (faulty variant first: an update of the whole queryset instead of .first())
RejectAllPending(u, v) ==
    /\ u \in users
    /\ LET hit == PendingFilter(requests, v, u)
           fr == First(hit) IN
        IF fr # 0
        THEN /\ requests' = [i \in 1 .. Len(requests) |->
                    IF i \in hit
                    THEN [requests[i] EXCEPT !.status = "rejected"]
                    ELSE requests[i]]
             /\ last' = Response("Reject", u, v, 200, fr)
        ELSE /\ UNCHANGED requests
             /\ last' = Response("Reject", u, v, 400, 0)
    /\ UNCHANGED <<users, friends, inflight>>

Reject(u, v) ==
    /\ u \in users
    /\ LET fr == First(PendingFilter(requests, v, u)) IN
        IF fr # 0
        THEN /\ requests' = [requests EXCEPT ![fr].status = "rejected"]
             /\ last' = Response("Reject", u, v, 200, fr)
        ELSE /\ UNCHANGED requests
             /\ last' = Response("Reject", u, v, 400, 0)
    /\ UNCHANGED <<users, friends, inflight>>

DoSend == \E u \in users, t \in InputIds, f \in InputIds : Send(u, t, f)

DoAccept == \E u \in users, v \in InputIds : Accept(u, v)

DoReject == \E u \in users, v \in InputIds : Reject(u, v)

Next == Register \/ DoSend \/ DoAccept \/ DoReject

Spec == Init /\ [][Next]_vars

\* ----------------------- handlers, one step per database statement

\* a worker p takes an Accept call by u with body {user_id: v} and runs the
\* SELECT ... .first(); with no row it answers 400 at once
AcceptLookup(p, u, v) ==
    /\ inflight[p].pc = "idle"
    /\ u \in users
    /\ LET fr == First(PendingFilter(requests, v, u)) IN
        IF fr # 0
        THEN /\ inflight' = [inflight EXCEPT ![p] =
                    [pc |-> "accept_save", user |-> u, arg |-> v, fr |-> fr]]
             /\ last' = last
        ELSE /\ inflight' = inflight
             /\ last' = Response("Accept", u, v, 400, 0)
    /\ UNCHANGED <<users, requests, friends>>

\* friend_request.status = 'accepted'; friend_request.save(): an UPDATE of
\* the row by primary key, whatever status the row has by now
AcceptSave(p) ==
    /\ inflight[p].pc = "accept_save"
    /\ requests' = [requests EXCEPT ![inflight[p].fr].status = "accepted"]
    /\ inflight' = [inflight EXCEPT ![p].pc = "accept_add"]
    /\ UNCHANGED <<users, friends, last>>

\* request.user.friends.add(friend_request.from_user), then the 200 response
AcceptAddFriend(p) ==
    /\ inflight[p].pc = "accept_add"
    /\ friends' = FriendsAdd(friends, inflight[p].user,
                             requests[inflight[p].fr].from_user)
    /\ last' = Response("Accept", inflight[p].user, inflight[p].arg, 200,
                        inflight[p].fr)
    /\ inflight' = [inflight EXCEPT ![p] = Idle]
    /\ UNCHANGED <<users, requests>>

\* a worker p takes a Reject call by u with body {user_id: v}
RejectLookup(p, u, v) ==
    /\ inflight[p].pc = "idle"
    /\ u \in users
    /\ LET fr == First(PendingFilter(requests, v, u)) IN
        IF fr # 0
        THEN /\ inflight' = [inflight EXCEPT ![p] =
                    [pc |-> "reject_save", user |-> u, arg |-> v, fr |-> fr]]
             /\ last' = last
        ELSE /\ inflight' = inflight
             /\ last' = Response("Reject", u, v, 400, 0)
    /\ UNCHANGED <<users, requests, friends>>

\* friend_request.status = 'rejected'; friend_request.save(); the 200 response
RejectSave(p) ==
    /\ inflight[p].pc = "reject_save"
    /\ requests' = [requests EXCEPT ![inflight[p].fr].status = "rejected"]
    /\ last' = Response("Reject", inflight[p].user, inflight[p].arg, 200,
                        inflight[p].fr)
    /\ inflight' = [inflight EXCEPT ![p] = Idle]
    /\ UNCHANGED <<users, friends>>

DoAcceptLookup ==
    \E p \in Procs, u \in users, v \in InputIds : AcceptLookup(p, u, v)

DoAcceptSave == \E p \in Procs : AcceptSave(p)

DoAcceptAddFriend == \E p \in Procs : AcceptAddFriend(p)

DoRejectLookup ==
    \E p \in Procs, u \in users, v \in InputIds : RejectLookup(p, u, v)

DoRejectSave == \E p \in Procs : RejectSave(p)

\* Register and Send are one INSERT each and stay one step
NextConc ==
    \/ Register
    \/ DoSend
    \/ DoAcceptLookup
    \/ DoAcceptSave
    \/ DoAcceptAddFriend
    \/ DoRejectLookup
    \/ DoRejectSave

SpecConc == Init /\ [][NextConc]_vars

\* ------------------------------------------------------------- the claims

\* the rows of a request table by index
Rows(reqs) == 1 .. Len(reqs)

\* a pending request from v addressed to u is stored
HasPending(reqs, v, u) ==
    \E i \in Rows(reqs) :
        reqs[i] = [from_user |-> v, to_user |-> u, status |-> "pending"]

\* C1: in every reachable state no user is a member of its own friends
\* relation.
C1_NoSelfFriend == \A u \in users : <<u, u>> \notin friends

\* C2: when Accept(acting_user=b, user_id=a) has succeeded, the matched request
\* (from a to b) has status accepted, a is in b's friend list and b is in a's;
\* and in every state the friends relation is symmetric, so List friends gives
\* the same answer from either side.
C2_AcceptMakesSymmetricFriends ==
    /\ (last.op = "Accept" /\ last.code = 200) =>
          /\ last.rid \in Rows(requests)
          /\ requests[last.rid].from_user = last.arg
          /\ requests[last.rid].to_user = last.user
          /\ requests[last.rid].status = "accepted"
          /\ last.arg \in FriendList(last.user)
          /\ last.user \in FriendList(last.arg)
    /\ \A x, y \in users : (x \in FriendList(y)) <=> (y \in FriendList(x))
    /\ \A x, y \in InputIds : (<<x, y>> \in friends) <=> (<<y, x>> \in friends)

C2_Witness ==
    /\ last.op = "Accept"
    /\ last.code = 200
    /\ last.arg # last.user
    /\ last.arg \in FriendList(last.user)

\* C3: an Accept or Reject by u naming v, when no pending request from v to u
\* is stored, answers with the invalid-request error (400) and changes no
\* request and no friends row.
C3_NoPendingNoChange ==
    [][(/\ last'.op \in {"Accept", "Reject"}
        /\ ~HasPending(requests, last'.arg, last'.user))
       => (/\ last'.code = 400
           /\ requests' = requests
           /\ friends' = friends)]_vars

C3_Witness ==
    /\ last.op \in {"Accept", "Reject"}
    /\ last.code = 400
    /\ \E i \in Rows(requests) :
          /\ requests[i].from_user = last.arg
          /\ requests[i].to_user = last.user
          /\ requests[i].status = "accepted"
    /\ \E i \in Rows(requests) :
          /\ requests[i].from_user = last.arg
          /\ requests[i].to_user # last.user
          /\ requests[i].status = "pending"

C5_AcceptNotRepeatable ==
    [][(/\ last.op = "Accept"
        /\ last.code = 200
        /\ last.user # last.arg
        /\ last'.op \in {"Accept", "Reject"}
        /\ last'.user = last.user
        /\ last'.arg = last.arg)
       => (/\ last'.code = 400
           /\ requests' = requests
           /\ friends' = friends)]_vars

\* C7: a successful Reject(acting_user=b, user_id=a) turns exactly one pending
\* request from a to b into rejected and leaves every other request, and every
\* friends row, as it was.
C7_RejectFrame ==
    [][(last'.op = "Reject" /\ last'.code = 200)
       => (/\ friends' = friends
           /\ users' = users
           /\ Len(requests') = Len(requests)
           /\ last'.rid \in Rows(requests)
           /\ requests[last'.rid] =
                 [from_user |-> last'.arg, to_user |-> last'.user,
                  status |-> "pending"]
           /\ requests'[last'.rid] =
                 [from_user |-> last'.arg, to_user |-> last'.user,
                  status |-> "rejected"]
           /\ \A j \in Rows(requests) :
                 j # last'.rid => requests'[j] = requests[j])]_vars

C7_Witness ==
    /\ last.op = "Reject"
    /\ last.code = 200
    /\ last.user # last.arg
    /\ requests[last.rid].status = "rejected"
    /\ last.arg \notin FriendList(last.user)
    /\ \E j \in Rows(requests) :
          /\ j # last.rid
          /\ requests[j].from_user = last.arg
          /\ requests[j].to_user = last.user
          /\ requests[j].status = "pending"

\* C8: a Send by u to an existing user t appends exactly one request
\* [from_user = u, to_user = t, status = pending], whatever from_user the body
\* carried, and changes no stored request and no friends row; a Send to an id
\* that is no user fails (400) and creates nothing.
C8_SendCreatesOnePending ==
    [][last'.op = "Send"
       => (/\ friends' = friends
           /\ users' = users
           /\ IF last'.arg \in users
              THEN /\ last'.code = 201
                   /\ last'.rid = Len(requests) + 1
                   /\ requests' = Append(requests,
                          [from_user |-> last'.user, to_user |-> last'.arg,
                           status |-> "pending"])
              ELSE /\ last'.code = 400
                   /\ requests' = requests)]_vars

C8_Witness ==
    /\ last.op = "Send"
    /\ last.code = 201
    /\ last.rid = Len(requests)
    /\ last.rid > 1
    /\ requests[last.rid].from_user # requests[last.rid].to_user
    /\ requests[1].status = "accepted"

\* C9: every stored FriendRequest has from_user different from to_user.
C9_NoSelfRequest ==
    \A i \in Rows(requests) : requests[i].from_user # requests[i].to_user

\* x and y are in each other's friends relation
AreFriends(x, y) == <<x, y>> \in friends /\ <<y, x>> \in friends

\* C6: with Accept run as its separate statements, no observer reads a state
\* where a request from a to b (a # b) is accepted while a and b are not in
\* each other's friends relation, nor one where one direction of a friendship
\* is stored without the other.
C6_AcceptAtomic ==
    /\ \A i \in Rows(requests) :
          (/\ requests[i].status = "accepted"
           /\ requests[i].from_user # requests[i].to_user)
          => AreFriends(requests[i].from_user, requests[i].to_user)
    /\ \A x, y \in InputIds : (<<x, y>> \in friends) <=> (<<y, x>> \in friends)

\* C10: with the lookup and save steps of concurrent Accept and Reject calls
\* interleaved, two distinct users are in each other's friends relation only if
\* some FriendRequest between them has status accepted now (so no request is
\* rejected while the friendship it proposed, and no other request granted,
\* is in place).
C10_FriendshipOnlyByAcceptance ==
    \A x, y \in users :
        (x # y /\ AreFriends(x, y)) =>
            \E i \in Rows(requests) :
                /\ requests[i].status = "accepted"
                /\ {requests[i].from_user, requests[i].to_user} = {x, y}

====
